---------------------------- MODULE Spec2Model ----------------------------
(***************************************************************************)
(* Model of src/src/S3Triangulation.h: the construction, repair and        *)
(* classification of a foliated triangulation (make_S3_triangulation and   *)
(* the functions it calls).                                                *)
(*                                                                         *)
(* The CGAL Delaunay engine is an external collaborator.  It is modelled   *)
(* as a container of cell slots (CGAL keeps cells in a compact container   *)
(* whose erased slots are reused), a Cell_handle being a slot index, and   *)
(* its insert and remove as nondeterministic choices among bounded sets    *)
(* of triangulations.  A vertex is the index of its point in the generated *)
(* point vector; its position is not modelled, its time label is.          *)
(***************************************************************************)
EXTENDS Integers, Sequences, FiniteSets, TLC

VARIABLES
  pc,          \* position in make_S3_triangulation, or "idle" between calls
  simplices,   \* argument: unsigned simplices
  timeslices,  \* argument: unsigned timeslices
  output,      \* argument: bool output
  timevalue,   \* std::vector<unsigned> timevalue (vertices is parallel to it)
  D3,          \* the Delaunay triangulation *D3
  three_one,   \* std::vector<Cell_handle> *three_one
  two_two,     \* std::vector<Cell_handle> *two_two
  one_three,   \* std::vector<Cell_handle> *one_three
  N1_TL,       \* unsigned *N1_TL
  N1_SL,       \* unsigned *N1_SL
  pass,        \* unsigned pass of the repair loop
  valid,       \* bool valid printed by make_S3_triangulation
  ret,         \* the last check_timeslices call: its flag, counters and result
  ops,         \* history: the operations performed so far, in order
  removed,     \* history: the removals of the last fix_timeslices pass
  entry        \* history: the caller's data on entry to the last call

vars == <<pc, simplices, timeslices, output, timevalue, D3, three_one,
          two_two, one_three, N1_TL, N1_SL, pass, valid, ret, ops, removed,
          entry>>

(***************************** bounds ***************************************)
MaxSimplices == 3    \* largest simplices argument tried
MaxTimeslices == 3   \* largest timeslices argument tried
MaxCells == 2        \* slots of the engine's cell container
MaxNewCells == 1     \* cells the engine creates when it fills a hole

(***************************** constants ************************************)
MAX_FOLIATION_FIX_PASSES == 20

Range(f) == {f[x] : x \in DOMAIN f}

(***************************** the engine ***********************************)
\* An unused slot of the cell container.
FreeSlot == [used |-> FALSE, v |-> [i \in 0..3 |-> 0], valid |-> FALSE,
             info |-> 0]

\* The empty triangulation a caller constructs (Delaunay T;).
EmptyD3 == [verts |-> {}, vinfo |-> <<>>,
            cells |-> [i \in 1..MaxCells |-> FreeSlot]]

\* Handles of the finite cells, in iteration order
\* (finite_cells_begin() .. finite_cells_end()).
FiniteCells(D) == {i \in 1..MaxCells : D.cells[i].used}

number_of_finite_cells(D) == Cardinality(FiniteCells(D))

\* cit->vertex(i)->info()
VertexInfo(D, c, i) == D.vinfo[c.v[i]]

RECURSIVE SortedVerts(_)
SortedVerts(S) ==
  IF S = {} THEN <<>>
  ELSE LET m == CHOOSE x \in S : \A y \in S : x <= y
       IN <<m>> \o SortedVerts(S \ {m})

\* The two vertex orders the engine gives a cell in this model: by
\* increasing and by decreasing point index.
CellOrders(S) ==
  LET s == SortedVerts(S)
  IN {[i \in 0..3 |-> s[i + 1]], [i \in 0..3 |-> s[4 - i]]}

\* The cells the engine may build on the vertex sets Sets: structurally
\* valid ones (cit->is_valid()) in either vertex order, and structurally
\* invalid ones in one order, since only the loops over the vertices of a
\* valid cell depend on their order.
CellsOn(Sets) ==
  {[used |-> TRUE, v |-> o, valid |-> TRUE, info |-> 0] :
     o \in UNION {CellOrders(S) : S \in Sets}}
  \cup {[used |-> TRUE, v |-> [i \in 0..3 |-> SortedVerts(S)[i + 1]],
         valid |-> FALSE, info |-> 0] : S \in Sets}

\* Vertex sets that take, in every time slice, the lowest-indexed vertices
\* present (the points of one slice are interchangeable).
LeadingSets(verts, vinfo) ==
  {S \in SUBSET verts :
     /\ Cardinality(S) = 4
     /\ \A x \in S : \A y \in verts :
          (vinfo[y] = vinfo[x] /\ y < x) => y \in S}

NoTwin(cells) ==
  \A i, j \in DOMAIN cells :
    (i # j /\ cells[i].used /\ cells[j].used)
      => Range(cells[i].v) # Range(cells[j].v)

\* The triangulations the engine may return for the vertices verts.
Triangulations(verts, vinfo) ==
  {c \in [1..MaxCells -> CellsOn(LeadingSets(verts, vinfo)) \cup {FreeSlot}] :
     NoTwin(c)}

\* D3->insert(first, last) of the zipped (point, timevalue) range.
EngineInsert(D, tv) ==
  LET n     == Len(D.vinfo)
      vinfo == D.vinfo \o tv
      verts == D.verts \cup (n + 1 .. n + Len(tv))
  IN {[verts |-> verts, vinfo |-> vinfo, cells |-> c] :
        c \in Triangulations(verts, vinfo)}

\* D3->remove(v): the cells incident to v are destroyed and the hole is
\* filled with new cells on the neighbours of v, placed in free slots.
EngineRemove(D, v) ==
  LET inc(i) == D.cells[i].used /\ v \in Range(D.cells[i].v)
      nb     == UNION {Range(D.cells[i].v) : i \in {j \in 1..MaxCells : inc(j)}}
                  \ {v}
      base   == [i \in 1..MaxCells |-> IF inc(i) THEN FreeSlot ELSE D.cells[i]]
      free   == {i \in 1..MaxCells : ~base[i].used}
      fresh  == CellsOn({S \in SUBSET nb : Cardinality(S) = 4})
      fills  == {c \in [1..MaxCells -> fresh \cup Range(base)] :
                   /\ \A i \in 1..MaxCells : base[i].used => c[i] = base[i]
                   /\ \A i \in free : c[i] \in fresh \cup {FreeSlot}
                   /\ Cardinality({i \in free : c[i].used}) <= MaxNewCells
                   /\ NoTwin(c)}
  IN {[verts |-> D.verts \ {v}, vinfo |-> D.vinfo, cells |-> c] : c \in fills}


(***************************** make_2_sphere ********************************)
\* every point labelled 1, whatever the radius
make_2_sphere_Unit(tv, number_of_points, radius) ==
  tv \o [k \in 1..number_of_points |-> 1]

\* Appends number_of_points labels static_cast<unsigned>(radius); the
\* radii used are whole numbers, so the cast keeps them.
RECURSIVE make_2_sphere(_, _, _)
make_2_sphere(tv, number_of_points, radius) ==
  IF number_of_points <= 0 THEN tv
  ELSE make_2_sphere(Append(tv, radius), number_of_points - 1, radius)

\* The loop of make_S3_triangulation over the timeslices: radius = 1.0 + i.
RECURSIVE GeneratePoints(_, _, _, _)
GeneratePoints(tv, i, slices, points) ==
  IF i >= slices THEN tv
  ELSE GeneratePoints(make_2_sphere(tv, points, 1 + i), i + 1, slices, points)

\* the assertion weakened to >= 0
ConfigOK_Weak(simplices_per_timeslice) == simplices_per_timeslice >= 0

\* assert(simplices_per_timeslice >= 1)
ConfigOK(simplices_per_timeslice) == simplices_per_timeslice >= 1

(***************************** classify_edges *******************************)
\* The vertex pairs of a cell, as (i, j) index pairs.
IndexPairs == <<<<0, 1>>, <<0, 2>>, <<0, 3>>, <<1, 2>>, <<1, 3>>, <<2, 3>>>>

EdgeVerts(D, e) == {D.cells[e[1]].v[e[2]], D.cells[e[1]].v[e[3]]}

\* finite_edges_begin() .. finite_edges_end(): every finite edge once, as a
\* triple (cell handle, i, j) of the first cell that holds it.
RECURSIVE EdgesFrom(_, _, _, _)
EdgesFrom(D, ch, k, acc) ==
  IF ch > MaxCells THEN acc
  ELSE IF k > Len(IndexPairs) \/ ~D.cells[ch].used
    THEN EdgesFrom(D, ch + 1, 1, acc)
  ELSE LET e == <<ch, IndexPairs[k][1], IndexPairs[k][2]>>
       IN IF \E n \in 1..Len(acc) : EdgeVerts(D, acc[n]) = EdgeVerts(D, e)
            THEN EdgesFrom(D, ch, k + 1, acc)
            ELSE EdgesFrom(D, ch, k + 1, Append(acc, e))

FiniteEdges(D) == EdgesFrom(D, 1, 1, <<>>)

\* time1 == time2: the edge is spacelike
SameTime(time1, time2) == time1 = time2

RECURSIVE EdgeLoop(_, _, _, _, _)
EdgeLoop(D, edges, n, tl, sl) ==
  IF n > Len(edges) THEN [N1_TL |-> tl, N1_SL |-> sl]
  ELSE LET ch    == D.cells[edges[n][1]]
           time1 == VertexInfo(D, ch, edges[n][2])
           time2 == VertexInfo(D, ch, edges[n][3])
       IN IF SameTime(time1, time2)
            THEN EdgeLoop(D, edges, n + 1, tl, sl + 1)
            ELSE EdgeLoop(D, edges, n + 1, tl + 1, sl)

\* classify_edges(D3, N1_TL, N1_SL): the counters after the call
classify_edges(D, tl, sl) == EdgeLoop(D, FiniteEdges(D), 1, tl, sl)

(***************************** classify_3_simplices *************************)
\* std::list::sort
RECURSIVE SortList(_)
SortList(l) ==
  IF Len(l) <= 1 THEN l
  ELSE LET m    == CHOOSE k \in 1..Len(l) : \A j \in 1..Len(l) : l[k] <= l[j]
           rest == [j \in 1..(Len(l) - 1) |-> IF j < m THEN l[j] ELSE l[j + 1]]
       IN <<l[m]>> \o SortList(rest)

\* the while loop popping the sorted list from the back
RECURSIVE CountLoop(_, _, _, _)
CountLoop(l, max_time, max_values, min_values) ==
  IF l = <<>> THEN [max_values |-> max_values, min_values |-> min_values]
  ELSE LET current_time == l[Len(l)]
           r == SubSeq(l, 1, Len(l) - 1)
       IN IF current_time = max_time
            THEN CountLoop(r, max_time, max_values + 1, min_values)
            ELSE CountLoop(r, max_time, max_values, min_values + 1)

\* the vertices at the least label counted in place of those at the greatest
MaxValues_Least(D, c) ==
  Cardinality({i \in 0..3 :
     \A j \in 0..3 : VertexInfo(D, c, i) <= VertexInfo(D, c, j)})

\* max_values of a cell: the number of its vertices at its greatest label
MaxValues(D, c) ==
  LET timevalues == SortList([i \in 1..4 |-> VertexInfo(D, c, i - 1)])
      max_time   == timevalues[4]
  IN CountLoop(SubSeq(timevalues, 1, 3), max_time, 1, 0).max_values

\* the tags 13 and 31 exchanged
SimplexType_Swapped(max_values) ==
  IF max_values = 3 THEN 31
  ELSE IF max_values = 2 THEN 22
  ELSE 13

\* the if / else if / else on max_values: the tag of the cell
SimplexType(max_values) ==
  IF max_values = 3 THEN 13
  ELSE IF max_values = 2 THEN 22
  ELSE 31

RECURSIVE ClassifyLoop(_, _, _, _, _)
ClassifyLoop(D, cit, t31, t22, t13) ==
  IF cit > MaxCells
    THEN [D3 |-> D, three_one |-> t31, two_two |-> t22, one_three |-> t13]
  ELSE IF ~D.cells[cit].used THEN ClassifyLoop(D, cit + 1, t31, t22, t13)
  ELSE LET type == SimplexType(MaxValues(D, D.cells[cit]))
           E    == [D EXCEPT !.cells[cit].info = type]
       IN IF type = 13 THEN ClassifyLoop(E, cit + 1, t31, t22, Append(t13, cit))
          ELSE IF type = 22
            THEN ClassifyLoop(E, cit + 1, t31, Append(t22, cit), t13)
          ELSE ClassifyLoop(E, cit + 1, Append(t31, cit), t22, t13)

\* classify_3_simplices(D3, three_one, two_two, one_three)
classify_3_simplices(D, t31, t22, t13) == ClassifyLoop(D, 1, t31, t22, t13)

\* the vectors left as they are
Cleared_Not(v) == v

\* the three clear() calls of reclassify_3_simplices
Cleared(v) == <<>>

\* reclassify_3_simplices(D3, three_one, two_two, one_three)
reclassify_3_simplices(D, t31, t22, t13) ==
  classify_3_simplices(D, Cleared(t31), Cleared(t22), Cleared(t13))

(***************************** check / fix **********************************)
\* the loop over the four vertices of a cell, shared by check_timeslices and
\* fix_timeslices; max_vertex changes only when a label exceeds max_time
RECURSIVE VertexLoop(_, _, _, _, _, _)
VertexLoop(D, c, i, min_time, max_time, max_vertex) ==
  IF i >= 4
    THEN [min_time |-> min_time, max_time |-> max_time,
          max_vertex |-> max_vertex]
  ELSE LET current_time == VertexInfo(D, c, i)
       IN VertexLoop(D, c, i + 1,
            IF current_time < min_time THEN current_time ELSE min_time,
            IF current_time > max_time THEN current_time ELSE max_time,
            IF current_time > max_time THEN i ELSE max_vertex)

\* a span of zero taken for a good one
BadFoliation_Gt(max_time, min_time) == max_time - min_time > 1

\* max_time - min_time != 1 (unsigned; the loop leaves min_time <= max_time,
\* so the difference never wraps)
BadFoliation(max_time, min_time) == max_time - min_time # 1

RECURSIVE CheckLoop(_, _, _, _, _)
CheckLoop(D, cit, out, nvalid, ninvalid) ==
  IF cit > MaxCells THEN [valid |-> nvalid, invalid |-> ninvalid]
  ELSE IF ~D.cells[cit].used THEN CheckLoop(D, cit + 1, out, nvalid, ninvalid)
  ELSE IF D.cells[cit].valid
    THEN LET c == D.cells[cit]
             t == VertexLoop(D, c, 0, VertexInfo(D, c, 0), VertexInfo(D, c, 0), 0)
         IN IF BadFoliation(t.max_time, t.min_time)
              THEN CheckLoop(D, cit + 1, out, nvalid, ninvalid + 1)
              ELSE CheckLoop(D, cit + 1, out, nvalid + 1, ninvalid)
  ELSE CheckLoop(D, cit + 1, out, nvalid, ninvalid + 1)

\* the counters valid and invalid of check_timeslices(D3, output)
CheckCounts(D, out) == CheckLoop(D, 1, out, 0, 0)

\* true as soon as one cell is valid
check_timeslices_AnyValid(D, out) == CheckCounts(D, out).valid > 0

\* check_timeslices(D3, output): return (invalid == 0) ? true : false.  The
\* assert(D3->is_valid()) before the return passes: insert and remove leave
\* a valid Delaunay triangulation, the engine's invariant.
check_timeslices(D, out) == CheckCounts(D, out).invalid = 0

\* what one call of check_timeslices(D3, output) computes
CheckCall(D, out) ==
  [output |-> out, valid |-> CheckCounts(D, out).valid,
   invalid |-> CheckCounts(D, out).invalid, value |-> check_timeslices(D, out)]

NoCall == [output |-> FALSE, valid |-> 0, invalid |-> 0, value |-> FALSE]

\* fix_timeslices from the cell at cit on: the possible results of the pass.
\* After D3->remove the iterator stands on a destroyed cell; incrementing it
\* walks on through the container, over whatever cells now fill the slots
\* behind it.
RECURSIVE FixLoop(_, _, _, _)
FixLoop(D, cit, max_vertex, log) ==
  IF cit > MaxCells THEN {[D3 |-> D, removed |-> log]}
  ELSE IF ~D.cells[cit].used THEN FixLoop(D, cit + 1, max_vertex, log)
  ELSE IF D.cells[cit].valid
    THEN LET c == D.cells[cit]
             t == VertexLoop(D, c, 0, VertexInfo(D, c, 0), VertexInfo(D, c, 0),
                             max_vertex)
         IN IF BadFoliation(t.max_time, t.min_time)
              THEN UNION {FixLoop(E, cit + 1, t.max_vertex,
                                  Append(log, [cell |-> c,
                                               vertex |-> c.v[t.max_vertex],
                                               max_time |-> t.max_time]))
                            : E \in EngineRemove(D, c.v[t.max_vertex])}
              ELSE FixLoop(D, cit + 1, t.max_vertex, log)
  ELSE FixLoop(D, cit + 1, max_vertex, log)

\* fix_timeslices(D3, output): unsigned max_vertex{0} before the loop
fix_timeslices(D, out) == FixLoop(D, 1, 0, <<>>)

(***************************** make_S3_triangulation *************************)
\* What a caller may hand over in the three vectors and the two counters:
\* fresh ones, or ones that already hold something.
CallerVectors == <<<<>>, <<1>>>>
CallerCounters == <<0, 1>>

NoEntry == [three_one |-> <<>>, two_two |-> <<>>, one_three |-> <<>>,
            N1_TL |-> 0, N1_SL |-> 0, D3 |-> EmptyD3]

Entry == [three_one |-> three_one, two_two |-> two_two,
          one_three |-> one_three, N1_TL |-> N1_TL, N1_SL |-> N1_SL,
          D3 |-> D3]

\* entries held by the three vectors together
EntrySize == Len(three_one) + Len(two_two) + Len(one_three)

Init ==
  /\ pc = "start"
  /\ simplices \in 1..MaxSimplices
  /\ timeslices \in 1..MaxTimeslices
  /\ output \in BOOLEAN
  /\ timevalue = <<>>
  /\ D3 = EmptyD3
  /\ \E k \in 1..2 :
       /\ three_one = CallerVectors[k]
       /\ two_two = CallerVectors[k]
       /\ one_three = CallerVectors[k]
  /\ N1_TL = 0
  /\ N1_SL = 0
  /\ pass = 0
  /\ valid = FALSE
  /\ ret = NoCall
  /\ ops = <<>>
  /\ removed = <<>>
  /\ entry = NoEntry

\* const unsigned simplices_per_timeslice = simplices / timeslices
simplices_per_timeslice == simplices \div timeslices

\* assert(simplices_per_timeslice >= 1) fails: the program aborts
ConfigError ==
  /\ pc = "start"
  /\ ~ConfigOK(simplices_per_timeslice)
  /\ pc' = "aborted"
  /\ UNCHANGED <<simplices, timeslices, output, timevalue, D3, three_one,
                 two_two, one_three, N1_TL, N1_SL, pass, valid, ret, ops,
                 removed, entry>>

\* points = simplices_per_timeslice * 4, then the make_2_sphere loop
Generate ==
  /\ pc = "start"
  /\ ConfigOK(simplices_per_timeslice)
  /\ timevalue' = GeneratePoints(<<>>, 0, timeslices,
                                 simplices_per_timeslice * 4)
  /\ pc' = "insert"
  /\ UNCHANGED <<simplices, timeslices, output, D3, three_one, two_two,
                 one_three, N1_TL, N1_SL, pass, valid, ret, ops, removed,
                 entry>>

\* insert_into_S3(D3, &vertices, &timevalue); unsigned pass = 0
Insert ==
  /\ pc = "insert"
  /\ D3' \in EngineInsert(D3, timevalue)
  /\ pass' = 0
  /\ ops' = Append(ops, <<"insert">>)
  /\ pc' = "loop"
  /\ UNCHANGED <<simplices, timeslices, output, timevalue, three_one, two_two,
                 one_three, N1_TL, N1_SL, valid, ret, removed, entry>>

\* the break tested one pass late
PassesExhausted_Late(p) == p > MAX_FOLIATION_FIX_PASSES + 1

\* if (pass > MAX_FOLIATION_FIX_PASSES) break
PassesExhausted(p) == p > MAX_FOLIATION_FIX_PASSES

\* while (!check_timeslices(D3, output)) { pass++; if (...) break; ...
LoopTest ==
  /\ pc = "loop"
  /\ ret' = CheckCall(D3, output)
  /\ ops' = Append(ops, <<"check", ret'.value>>)
  /\ IF ret'.value
       THEN pc' = "classify" /\ pass' = pass
       ELSE /\ pass' = pass + 1
            /\ pc' = IF PassesExhausted(pass') THEN "classify" ELSE "fix"
  /\ UNCHANGED <<simplices, timeslices, output, timevalue, D3, three_one,
                 two_two, one_three, N1_TL, N1_SL, valid, removed, entry>>

\* ... fix_timeslices(D3, output); }
Fix ==
  /\ pc = "fix"
  /\ \E r \in fix_timeslices(D3, output) :
       /\ D3' = r.D3
       /\ removed' = r.removed
  /\ ops' = Append(ops, <<"fix">>)
  /\ pc' = "loop"
  /\ UNCHANGED <<simplices, timeslices, output, timevalue, three_one, two_two,
                 one_three, N1_TL, N1_SL, pass, valid, ret, entry>>

\* classify_3_simplices(D3, three_one, two_two, one_three)
Classify ==
  /\ pc = "classify"
  /\ LET r == classify_3_simplices(D3, three_one, two_two, one_three)
     IN /\ D3' = r.D3
        /\ three_one' = r.three_one
        /\ two_two' = r.two_two
        /\ one_three' = r.one_three
  /\ entry' = Entry
  /\ ops' = Append(ops, <<"classify", EntrySize>>)
  /\ pc' = "report"
  /\ UNCHANGED <<simplices, timeslices, output, timevalue, N1_TL, N1_SL, pass,
                 valid, ret, removed>>

\* success claimed without the final check
ReportedValidity_Claimed(D) == TRUE

\* bool valid = check_timeslices(D3, false)
ReportedValidity(D) == check_timeslices(D, FALSE)

\* the final check, the printing of valid and of the counts, the last assert
Report ==
  /\ pc = "report"
  /\ ret' = CheckCall(D3, FALSE)
  /\ valid' = ReportedValidity(D3)
  /\ ops' = Append(Append(ops, <<"check", valid'>>), <<"report", valid'>>)
  /\ pc' = "done"
  /\ UNCHANGED <<simplices, timeslices, output, timevalue, D3, three_one,
                 two_two, one_three, N1_TL, N1_SL, pass, removed, entry>>

Next == ConfigError \/ Generate \/ Insert \/ LoopTest \/ Fix \/ Classify
          \/ Report

Spec == Init /\ [][Next]_vars

(***************************** the functions called on their own ************)
\* A caller holding a triangulation calls the classification, validation and
\* edge functions directly, up to MaxCalls times.
MaxCalls == 2

InitOps ==
  /\ pc = "idle"
  /\ simplices = MaxSimplices
  /\ timeslices \in 1..MaxTimeslices
  /\ ConfigOK(simplices_per_timeslice)
  /\ output = FALSE
  /\ timevalue = GeneratePoints(<<>>, 0, timeslices,
                                simplices_per_timeslice * 4)
  /\ D3 \in EngineInsert(EmptyD3, timevalue)
  /\ \E k \in 1..2 :
       /\ three_one = CallerVectors[k]
       /\ two_two = CallerVectors[k]
       /\ one_three = CallerVectors[k]
       /\ N1_TL = CallerCounters[k]
       /\ N1_SL = CallerCounters[k]
  /\ pass = 0
  /\ valid = FALSE
  /\ ret = NoCall
  /\ ops = <<>>
  /\ removed = <<>>
  /\ entry = NoEntry

CallClassify ==
  /\ pc = "idle" /\ Len(ops) < MaxCalls
  /\ LET r == classify_3_simplices(D3, three_one, two_two, one_three)
     IN /\ D3' = r.D3
        /\ three_one' = r.three_one
        /\ two_two' = r.two_two
        /\ one_three' = r.one_three
  /\ entry' = Entry
  /\ ops' = Append(ops, <<"classify", EntrySize>>)
  /\ UNCHANGED <<pc, simplices, timeslices, output, timevalue, N1_TL, N1_SL,
                 pass, valid, ret, removed>>

CallReclassify ==
  /\ pc = "idle" /\ Len(ops) < MaxCalls
  /\ LET r == reclassify_3_simplices(D3, three_one, two_two, one_three)
     IN /\ D3' = r.D3
        /\ three_one' = r.three_one
        /\ two_two' = r.two_two
        /\ one_three' = r.one_three
  /\ entry' = Entry
  /\ ops' = Append(ops, <<"reclassify", EntrySize>>)
  /\ UNCHANGED <<pc, simplices, timeslices, output, timevalue, N1_TL, N1_SL,
                 pass, valid, ret, removed>>

CallCheck ==
  /\ pc = "idle" /\ Len(ops) < MaxCalls
  /\ \E out \in BOOLEAN : ret' = CheckCall(D3, out)
  /\ entry' = Entry
  /\ ops' = Append(ops, <<"check">>)
  /\ UNCHANGED <<pc, simplices, timeslices, output, timevalue, D3, three_one,
                 two_two, one_three, N1_TL, N1_SL, pass, valid, removed>>

CallClassifyEdges ==
  /\ pc = "idle" /\ Len(ops) < MaxCalls
  /\ LET r == classify_edges(D3, N1_TL, N1_SL)
     IN N1_TL' = r.N1_TL /\ N1_SL' = r.N1_SL
  /\ entry' = Entry
  /\ ops' = Append(ops, <<"edges">>)
  /\ UNCHANGED <<pc, simplices, timeslices, output, timevalue, D3, three_one,
                 two_two, one_three, pass, valid, ret, removed>>

NextOps == CallClassify \/ CallReclassify \/ CallCheck \/ CallClassifyEdges

SpecOps == InitOps /\ [][NextOps]_vars

(***************************** vocabulary of the claims **********************)
\* The labels of a cell and their extremes, read off the cell as a set.
Labels(D, c) == {D.vinfo[c.v[i]] : i \in 0..3}
MaxLabel(D, c) == CHOOSE m \in Labels(D, c) : \A x \in Labels(D, c) : x <= m
MinLabel(D, c) == CHOOSE m \in Labels(D, c) : \A x \in Labels(D, c) : m <= x
AtMax(D, c) == Cardinality({i \in 0..3 : D.vinfo[c.v[i]] = MaxLabel(D, c)})

\* structurally valid and spanning exactly one unit of time
Foliated(D, c) == c.valid /\ MaxLabel(D, c) - MinLabel(D, c) = 1

AllFoliated(D) == \A h \in FiniteCells(D) : Foliated(D, D.cells[h])

\* occurrences of the handle h in the vector s
Occurrences(s, h) == Cardinality({k \in 1..Len(s) : s[k] = h})

OccurrencesInAll(h) ==
  Occurrences(three_one, h) + Occurrences(two_two, h) + Occurrences(one_three, h)

\* the triangulation without the tags classification writes on the cells
Structure(D) ==
  [verts |-> D.verts, vinfo |-> D.vinfo,
   cells |-> [i \in 1..MaxCells |-> [D.cells[i] EXCEPT !.info = 0]]]

CountOps(name) == Cardinality({k \in 1..Len(ops) : ops[k][1] = name})

(***************************** C1 *******************************************)
\* C1 (as stated): when a build has completed, the sizes of three_one,
\* two_two and one_three add up to the number of finite cells, every finite
\* cell is in exactly one of them, and no entry appears twice, whatever the
\* vectors held on entry.
C1_ExhaustivePartition ==
  pc = "done" =>
    /\ Len(three_one) + Len(two_two) + Len(one_three)
         = number_of_finite_cells(D3)
    /\ \A h \in FiniteCells(D3) : OccurrencesInAll(h) = 1
    /\ \A h \in Range(three_one) \cup Range(two_two) \cup Range(one_three) :
         OccurrencesInAll(h) = 1

(***************************** C4 *******************************************)
\* C4 (as stated): every vertex a fix_timeslices pass removes carries the
\* greatest label of the cell it was removed for.
C4_RemovesLatestVertex ==
  \A k \in 1..Len(removed) :
    D3.vinfo[removed[k].vertex] = MaxLabel(D3, removed[k].cell)

(***************************** C2 *******************************************)
\* the check_timeslices calls made by the while loop so far
LoopChecks ==
  Cardinality({k \in 1..Len(ops) :
     /\ ops[k][1] = "check"
     /\ \A j \in 1..k : ops[j][1] # "classify"})

\* some action of the build is enabled (ENABLED Next, action by action)
CanStep ==
  \/ pc \in {"start", "loop", "classify", "report"}
  \/ pc = "insert" /\ EngineInsert(D3, timevalue) # {}
  \/ pc = "fix" /\ fix_timeslices(D3, output) # {}

\* steps taken by the build: each action adds to it
Rank == Len(ops) + (IF pc = "start" THEN 0 ELSE 1)

\* C2: whatever the engine does, the repair loop calls fix_timeslices at
\* most 20 times and check_timeslices at most 21 times; the build takes a
\* bounded number of steps, each one a step forward, and stops only at its
\* end: aborted for a bad configuration alone, and otherwise classified and
\* reported.
C2_BoundedRetry ==
  /\ [](/\ CountOps("fix") <= MAX_FOLIATION_FIX_PASSES
        /\ LoopChecks <= MAX_FOLIATION_FIX_PASSES + 1
        /\ Rank <= 2 * MAX_FOLIATION_FIX_PASSES + 6
        /\ pc = "aborted" => (~ConfigOK(simplices_per_timeslice) /\ ops = <<>>)
        /\ pc = "done" => CountOps("classify") = 1
        /\ pc \in {"aborted", "done"} \/ CanStep)
  /\ [][Rank' > Rank]_vars

\* a run that used up all 20 passes and still was classified and reported
C2_Witness ==
  /\ pc = "done"
  /\ CountOps("fix") = MAX_FOLIATION_FIX_PASSES
  /\ LoopChecks = MAX_FOLIATION_FIX_PASSES + 1
  /\ CountOps("classify") = 1

C6_ConfigFailure ==
  [][(simplices \div timeslices < 1) =>
       /\ pc = "start" /\ pc' = "aborted"
       /\ timevalue' = <<>>
       /\ UNCHANGED <<D3, three_one, two_two, one_three, ops>>]_vars

\* 2 simplices for 3 timeslices: aborted, nothing generated or inserted
C6_Witness ==
  /\ pc = "aborted"
  /\ simplices = 2 /\ timeslices = 3
  /\ timevalue = <<>> /\ D3 = EmptyD3

(***************************** C10 ******************************************)
\* s is check, (fix, check)*, or a prefix of it: a fix only right after a
\* check that returned false, nothing after a check that returned true
LoopShape(s) ==
  \A i \in 1..Len(s) :
    /\ (i % 2 = 1) => s[i][1] = "check"
    /\ (i % 2 = 0) => (s[i] = <<"fix">> /\ s[i - 1] = <<"check", FALSE>>)
    /\ (s[i] = <<"check", TRUE>>) => i = Len(s)

\* the loop is over: it ends on a check, true or the 21st
LoopEnded(s) ==
  /\ LoopShape(s)
  /\ Len(s) % 2 = 1
  /\ \/ s[Len(s)] = <<"check", TRUE>>
     \/ Len(s) = 2 * MAX_FOLIATION_FIX_PASSES + 1

\* C10: the operations of a build come in the order insert, check,
\* (fix, check)*, classify, check, report; the loop ends at the first check
\* that returns true, or at the 21st; nothing is inserted or removed once
\* the cells are classified; the reported flag is the verdict on the
\* triangulation that was classified, false when the passes were used up
\* with invalid cells left.
C10_PipelineOrdering ==
  LET n    == Len(ops)
      loop == IF n = 0 THEN <<>>
              ELSE SubSeq(ops, 2, IF CountOps("classify") = 0 THEN n
                                  ELSE CHOOSE k \in 1..n :
                                         ops[k + 1][1] = "classify")
      tail == SubSeq(ops, Len(loop) + 2, n)
  IN /\ n > 0 => ops[1] = <<"insert">>
     /\ pc \in {"start", "insert", "aborted"} => n = 0
     /\ pc = "loop" => (LoopShape(loop) /\ Len(loop) % 2 = 0 /\ tail = <<>>)
     /\ pc = "fix" => /\ LoopShape(loop) /\ tail = <<>>
                      /\ loop[Len(loop)] = <<"check", FALSE>>
     /\ pc = "classify" => (LoopEnded(loop) /\ tail = <<>>)
     /\ pc = "report" => /\ LoopEnded(loop)
                         /\ Len(tail) = 1 /\ tail[1][1] = "classify"
                         /\ Structure(D3) = Structure(entry.D3)
     /\ pc = "done" =>
          /\ LoopEnded(loop)
          /\ Len(tail) = 3 /\ tail[1][1] = "classify"
          /\ tail[2] = <<"check", valid>> /\ tail[3] = <<"report", valid>>
          /\ Structure(D3) = Structure(entry.D3)
          /\ valid <=> AllFoliated(entry.D3)
          /\ (loop[Len(loop)] = <<"check", FALSE>>) => ~valid

\* a build that used up its passes and reported an invalid foliation
C10_Witness ==
  /\ pc = "done"
  /\ CountOps("fix") = MAX_FOLIATION_FIX_PASSES
  /\ ~valid
  /\ ops[Len(ops)] = <<"report", FALSE>>

(***************************** C5 *******************************************)
\* the last function called, and what it appended to a vector
LastCall == IF ops = <<>> THEN "none" ELSE ops[Len(ops)][1]

Appended(now, before) ==
  IF LastCall = "reclassify" THEN now
  ELSE SubSeq(now, Len(before) + 1, Len(now))

New31 == Range(Appended(three_one, entry.three_one))
New22 == Range(Appended(two_two, entry.two_two))
New13 == Range(Appended(one_three, entry.one_three))

Classified == pc = "idle" /\ LastCall \in {"classify", "reclassify"}

\* C5 (as stated): a classification puts a finite cell in one_three exactly
\* when three of its vertices carry its greatest label, in two_two exactly
\* when two do, in three_one exactly when one does; so a cell put in
\* three_one has one vertex at the greatest label and three below it.
C5_ClassificationRule ==
  Classified =>
    \A h \in FiniteCells(D3) :
      LET c == D3.cells[h]
      IN /\ (h \in New13) <=> (AtMax(D3, c) = 3)
         /\ (h \in New22) <=> (AtMax(D3, c) = 2)
         /\ (h \in New31) <=> (AtMax(D3, c) = 1)
         /\ (h \in New31) =>
              Cardinality({i \in 0..3 :
                 D3.vinfo[c.v[i]] < MaxLabel(D3, c)}) = 3

\* C5 (amended): a classification puts a finite cell in one_three (tag 13)
\* exactly when three of its vertices carry its greatest label, in two_two
\* (tag 22) exactly when two do, and in three_one (tag 31) in every other
\* case, that is when one does or when all four do; so a cell put in
\* three_one has either one vertex at the greatest label and three below
\* it, or four equal labels.
C5_RuleWithOtherwise ==
  Classified =>
    \A h \in FiniteCells(D3) :
      LET c == D3.cells[h]
          below == Cardinality({i \in 0..3 :
                      D3.vinfo[c.v[i]] < MaxLabel(D3, c)})
      IN /\ (h \in New13) <=> (AtMax(D3, c) = 3)
         /\ (h \in New22) <=> (AtMax(D3, c) = 2)
         /\ (h \in New31) <=> (AtMax(D3, c) \in {1, 4})
         /\ (h \in New13) <=> (c.info = 13)
         /\ (h \in New22) <=> (c.info = 22)
         /\ (h \in New31) <=> (c.info = 31)
         /\ (h \in New31) => (below = 3 \/ Cardinality(Labels(D3, c)) = 1)

\* a classification that met a cell of four equal labels and one with a
\* single latest vertex over three distinct-or-equal earlier ones
C5_Witness ==
  /\ Classified
  /\ \E h \in New31 : Cardinality(Labels(D3, D3.cells[h])) = 1
  /\ \E h \in New31 : AtMax(D3, D3.cells[h]) = 1

(***************************** C7 *******************************************)
Checked == pc = "idle" /\ LastCall = "check"

\* C7: check_timeslices returns true exactly when every finite cell is
\* structurally valid and spans one unit; its invalid counter is the number
\* of finite cells that are structurally invalid or do not span one unit (a
\* structurally invalid cell counts as invalid whatever its labels), valid
\* and invalid add up to the number of finite cells, and the output flag
\* changes none of this.
C7_ValidatorVerdict ==
  Checked =>
    LET bad == {h \in FiniteCells(D3) : ~Foliated(D3, D3.cells[h])}
    IN /\ ret.value <=> AllFoliated(D3)
       /\ ret.invalid = Cardinality(bad)
       /\ ret.valid = Cardinality(FiniteCells(D3) \ bad)
       /\ ret.valid + ret.invalid = number_of_finite_cells(D3)
       /\ \A h \in FiniteCells(D3) : ~D3.cells[h].valid => h \in bad
       /\ CheckCall(D3, ~ret.output).value = ret.value
       /\ CheckCall(D3, ~ret.output).valid = ret.valid
       /\ CheckCall(D3, ~ret.output).invalid = ret.invalid
       /\ D3 = entry.D3

\* a verbose check of a triangulation holding a good cell and a
\* structurally invalid cell whose labels span one unit
C7_Witness ==
  /\ Checked
  /\ ret.output
  /\ ret.valid = 1 /\ ret.invalid = 1 /\ ~ret.value
  /\ \E h \in FiniteCells(D3) :
       /\ ~D3.cells[h].valid
       /\ MaxLabel(D3, D3.cells[h]) - MinLabel(D3, D3.cells[h]) = 1

(***************************** C8 *******************************************)
\* the call before the last one was a classification that left the vectors
\* holding the classification of the triangulation and nothing else
AfterClassification ==
  /\ Len(ops) >= 2
  /\ \/ ops[Len(ops) - 1][1] = "reclassify"
     \/ ops[Len(ops) - 1] = <<"classify", 0>>

EdgeSet(D) ==
  UNION {{{D.cells[h].v[i], D.cells[h].v[j]} : i, j \in 0..3} \
           {{D.cells[h].v[i]} : i \in 0..3} : h \in FiniteCells(D)}

\* C9 (as stated): when classify_edges has returned, N1_TL + N1_SL is the
\* number of finite edges, N1_SL the number of those whose two labels are
\* equal, N1_TL the number of the others, and the triangulation is as it
\* was.
C9_EdgeTally ==
  (pc = "idle" /\ LastCall = "edges") =>
    LET spacelike == {e \in EdgeSet(D3) :
                        Cardinality({D3.vinfo[x] : x \in e}) = 1}
    IN /\ N1_TL + N1_SL = Cardinality(EdgeSet(D3))
       /\ N1_SL = Cardinality(spacelike)
       /\ N1_TL = Cardinality(EdgeSet(D3) \ spacelike)
       /\ D3 = entry.D3

(***************************** C11 ******************************************)
\* the insert has been done
Inserted == pc \in {"loop", "fix", "classify", "report", "done"}

\* the generated points labelled 1 + i
GeneratedIn(i) == {v \in 1..Len(timevalue) : timevalue[v] = 1 + i}

\* C11: once the points are inserted, the vertices of the triangulation
\* with their labels are among the generated points, of which slice i of
\* 0 .. timeslices - 1 has 4 * (simplices / timeslices), all labelled 1 + i;
\* the cells are built on those vertices; every label is in 1 .. timeslices,
\* there are at most 4 * (simplices / timeslices) * timeslices vertices, and
\* from then on a step only takes vertices away and changes no label.
C11_OnlyRemovals ==
  /\ [](Inserted =>
          /\ Len(timevalue) = 4 * (simplices \div timeslices) * timeslices
          /\ \A i \in 0..(timeslices - 1) :
               Cardinality(GeneratedIn(i)) = 4 * (simplices \div timeslices)
          /\ D3.verts \subseteq 1..Len(timevalue)
          /\ \A v \in D3.verts :
               /\ D3.vinfo[v] = timevalue[v]
               /\ D3.vinfo[v] \in 1..timeslices
          /\ \A h \in FiniteCells(D3) : Range(D3.cells[h].v) \subseteq D3.verts
          /\ Cardinality(D3.verts)
               <= 4 * (simplices \div timeslices) * timeslices)
  /\ [][Inserted =>
          /\ D3'.verts \subseteq D3.verts
          /\ \A v \in D3'.verts : D3'.vinfo[v] = D3.vinfo[v]
          /\ timevalue' = timevalue]_vars

\* a completed build over three slices that lost vertices to a repair pass
\* and kept a cell
C11_Witness ==
  /\ pc = "done"
  /\ timeslices = 3
  /\ removed # <<>>
  /\ Cardinality(D3.verts) < Len(timevalue)
  /\ FiniteCells(D3) # {}

(***************************** C12 ******************************************)
\* the vertices of the cell c labelled t
OnSlice(D, c, t) == Cardinality({i \in 0..3 : D.vinfo[c.v[i]] = t})

\* the vectors held nothing when the last classification started filling them
FilledFromEmpty == LastCall = "reclassify" \/ EntrySize = 0

\* C12: when classify_3_simplices has run on a triangulation for which
\* check_timeslices returns true, every finite cell has its vertices on two
\* adjacent slices t and t + 1 and none has all four on one slice; its tag
\* is 31 exactly when three are labelled t and one t + 1, 22 exactly when
\* two and two, 13 exactly when one is labelled t and three t + 1; and the
\* call put it in the vector of its tag and in no other (the vectors hold
\* nothing else when they were empty as the call started filling them).
C12_TagsOnValidFoliation ==
  (Classified /\ check_timeslices(D3, FALSE)) =>
    \A h \in FiniteCells(D3) :
      LET c == D3.cells[h]
          t == MinLabel(D3, c)
      IN /\ Labels(D3, c) = {t, t + 1}
         /\ OnSlice(D3, c, t) + OnSlice(D3, c, t + 1) = 4
         /\ OnSlice(D3, c, t) < 4 /\ OnSlice(D3, c, t + 1) < 4
         /\ c.info \in {31, 22, 13}
         /\ (c.info = 31) <=> (OnSlice(D3, c, t) = 3 /\ OnSlice(D3, c, t + 1) = 1)
         /\ (c.info = 22) <=> (OnSlice(D3, c, t) = 2 /\ OnSlice(D3, c, t + 1) = 2)
         /\ (c.info = 13) <=> (OnSlice(D3, c, t) = 1 /\ OnSlice(D3, c, t + 1) = 3)
         /\ (h \in New31) <=> (c.info = 31)
         /\ (h \in New22) <=> (c.info = 22)
         /\ (h \in New13) <=> (c.info = 13)
         /\ FilledFromEmpty =>
              /\ Occurrences(three_one, h) = (IF c.info = 31 THEN 1 ELSE 0)
              /\ Occurrences(two_two, h) = (IF c.info = 22 THEN 1 ELSE 0)
              /\ Occurrences(one_three, h) = (IF c.info = 13 THEN 1 ELSE 0)

\* a classification, into empty vectors, of a valid foliation holding a
\* (3,1) cell over slices 1 and 2 and a (1,3) cell over slices 2 and 3
C12_Witness ==
  /\ Classified /\ check_timeslices(D3, FALSE)
  /\ FilledFromEmpty
  /\ \E h \in Range(three_one) :
       /\ D3.cells[h].info = 31
       /\ Labels(D3, D3.cells[h]) = {1, 2}
  /\ \E h \in Range(one_three) :
       /\ D3.cells[h].info = 13
       /\ Labels(D3, D3.cells[h]) = {2, 3}

=============================================================================
